---------------------------- MODULE Spec2Model ----------------------------
(***************************************************************************)
(* A model of the repository's two programs:                               *)
(*   - binary-tree/src/lib.rs : AVLTreeSet, an ordered set on an AVL tree  *)
(*   - almost-union-find/src/main.rs : AlmostUnionFind                     *)
(*   - almost-union-find/src/v1_main.rs : the first AlmostUnionFind        *)
(*                                                                         *)
(* Option<Box<AVLNode>> is modelled as a sequence of length 0 (None) or 1  *)
(* (Some); a node is a record with the fields of struct AVLNode.  The raw  *)
(* node pointers that insert and take keep in prev_ptrs are modelled as    *)
(* the path ("L"/"R" steps from the root) of the Box they point into:      *)
(* rotations swap values and re-own children below the rotated node, so    *)
(* the Box found at an ancestor's path is never moved while it is pending  *)
(* in prev_ptrs.                                                           *)
(***************************************************************************)
EXTENDS Integers, Sequences, FiniteSets, TLC

VARIABLES root, btree_set, op, arg, ret, calls, panicked, input, iters,
          n, num_sets, set_size, element_id, sets, set_id, groups, aborted,
          overflow_checks, auf_op, auf_p, auf_q, auf_ret

avl_vars == <<root, btree_set, op, arg, ret, calls, panicked, input, iters>>
auf_vars == <<n, num_sets, set_size, element_id, sets, set_id, groups, aborted,
              overflow_checks, auf_op, auf_p, auf_q, auf_ret>>
vars == <<avl_vars, auf_vars>>

\* Values inserted, taken and looked up are drawn from 1..MaxVal.
MaxVal == 7

Values == 1..MaxVal

-----------------------------------------------------------------------------
(* Option and integer helpers *)

None == <<>>
Some(x) == <<x>>
is_some(t) == t # None
is_none(t) == t = None
unwrap(t) == t[1]

max(a, b) == IF a >= b THEN a ELSE b

\* The message of a panic of the almost-union-find program; NoPanic while it
\* runs.
NoPanic == "none"
IndexOutOfBounds == "index out of bounds"
SubtractOverflow == "attempt to subtract with overflow"
\* A loop that never ends.
LoopsForever == "loops forever"

\* `as i8` of a non-negative usize: truncation to 8 bits, two's complement.
as_i8(u) == LET m == u % 256 IN IF m >= 128 THEN m - 256 ELSE m

-----------------------------------------------------------------------------
(* AVLNode *)

AVLNode_new(value) ==
    [value |-> value, height |-> 1, left |-> None, right |-> None]

left_height(self) ==
    IF is_none(self.left) THEN 0 ELSE unwrap(self.left).height

right_height(self) ==
    IF is_none(self.right) THEN 0 ELSE unwrap(self.right).height

balance_factor(self) ==
    LET lh == left_height(self)
        rh == right_height(self)
    IN  IF lh >= rh THEN as_i8(lh - rh) ELSE -as_i8(rh - lh)

update_height(self) ==
    [self EXCEPT !.height = 1 + max(left_height(self), right_height(self))]

\* rotate_right that leaves the demoted node's cached height as it was.
rotate_right_stale(self) ==
    IF is_none(self.left)
    THEN [self |-> self, ret |-> FALSE]
    ELSE LET left    == unwrap(self.left)
             swapped == [self EXCEPT !.value = left.value,
                                     !.left  = left.left,
                                     !.right = Some([left EXCEPT !.value = self.value,
                                                                 !.left  = left.right,
                                                                 !.right = self.right])]
         IN  [self |-> update_height(swapped), ret |-> TRUE]

\* rotate_right that hands LR and R to the demoted node the wrong way round.
rotate_right_crossed(self) ==
    IF is_none(self.left)
    THEN [self |-> self, ret |-> FALSE]
    ELSE LET left      == unwrap(self.left)
             new_right == [left EXCEPT !.value = self.value,
                                       !.left  = self.right,
                                       !.right = left.right]
             swapped   == [self EXCEPT !.value = left.value,
                                       !.left  = left.left,
                                       !.right = Some(update_height(new_right))]
         IN  [self |-> update_height(swapped), ret |-> TRUE]

\* rotate_right without the final update of the node's own height.
rotate_right_own_stale(self) ==
    IF is_none(self.left)
    THEN [self |-> self, ret |-> FALSE]
    ELSE LET left      == unwrap(self.left)
             new_right == [left EXCEPT !.value = self.value,
                                       !.left  = left.right,
                                       !.right = self.right]
             swapped   == [self EXCEPT !.value = left.value,
                                       !.left  = left.left,
                                       !.right = Some(update_height(new_right))]
         IN  [self |-> swapped, ret |-> TRUE]

\* Result of a rotation: the node after the call and the returned bool.
rotate_right(self) ==
    IF is_none(self.left)
    THEN [self |-> self, ret |-> FALSE]
    ELSE LET left       == unwrap(self.left)
             left_right == left.right
             left_left  == left.left
             \* the Box of L, its value swapped with r's, re-owning LR and R
             new_right  == [left EXCEPT !.value = self.value,
                                        !.left  = left_right,
                                        !.right = self.right]
             swapped    == [self EXCEPT !.value = left.value,
                                        !.left  = left_left,
                                        !.right = Some(update_height(new_right))]
         IN  [self |-> update_height(swapped), ret |-> TRUE]

\* rotate_left without the swap of the values of r and R.
rotate_left_unswapped(self) ==
    IF is_none(self.right)
    THEN [self |-> self, ret |-> FALSE]
    ELSE LET right    == unwrap(self.right)
             new_left == [right EXCEPT !.left  = self.left,
                                       !.right = right.left]
             moved    == [self EXCEPT !.right = right.right,
                                      !.left  = Some(update_height(new_left))]
         IN  [self |-> update_height(moved), ret |-> TRUE]

\* rotate_left that leaves the demoted node's cached height as it was.
rotate_left_stale(self) ==
    IF is_none(self.right)
    THEN [self |-> self, ret |-> FALSE]
    ELSE LET right    == unwrap(self.right)
             new_left == [right EXCEPT !.value = self.value,
                                       !.left  = self.left,
                                       !.right = right.left]
             swapped  == [self EXCEPT !.value = right.value,
                                      !.right = right.right,
                                      !.left  = Some(new_left)]
         IN  [self |-> update_height(swapped), ret |-> TRUE]

\* rotate_left that reports a rotation also when there is no right child.
rotate_left_eager(self) ==
    IF is_none(self.right)
    THEN [self |-> self, ret |-> TRUE]
    ELSE LET right    == unwrap(self.right)
             new_left == [right EXCEPT !.value = self.value,
                                       !.left  = self.left,
                                       !.right = right.left]
             swapped  == [self EXCEPT !.value = right.value,
                                      !.right = right.right,
                                      !.left  = Some(update_height(new_left))]
         IN  [self |-> update_height(swapped), ret |-> TRUE]

rotate_left(self) ==
    IF is_none(self.right)
    THEN [self |-> self, ret |-> FALSE]
    ELSE LET right       == unwrap(self.right)
             right_right == right.right
             right_left  == right.left
             new_left    == [right EXCEPT !.value = self.value,
                                          !.left  = self.left,
                                          !.right = right_left]
             swapped     == [self EXCEPT !.value = right.value,
                                         !.right = right_right,
                                         !.left  = Some(update_height(new_left))]
         IN  [self |-> update_height(swapped), ret |-> TRUE]

\* rebalance that makes the inner rotation also when the child is level.
rebalance_eager(self) ==
    LET bf == balance_factor(self) IN
    CASE bf = -2 ->
           IF is_none(self.right)
           THEN [self |-> self, ret |-> FALSE, panic |-> TRUE]
           ELSE LET right_node == unwrap(self.right)
                    rotated    == IF balance_factor(right_node) >= 0
                                  THEN rotate_right(right_node).self
                                  ELSE right_node
                IN  [self  |-> rotate_left([self EXCEPT !.right = Some(rotated)]).self,
                     ret   |-> TRUE,
                     panic |-> FALSE]
      [] bf = 2 ->
           IF is_none(self.left)
           THEN [self |-> self, ret |-> FALSE, panic |-> TRUE]
           ELSE LET left_node == unwrap(self.left)
                    rotated   == IF balance_factor(left_node) <= 0
                                 THEN rotate_left(left_node).self
                                 ELSE left_node
                IN  [self  |-> rotate_right([self EXCEPT !.left = Some(rotated)]).self,
                     ret   |-> TRUE,
                     panic |-> FALSE]
      [] OTHER -> [self |-> self, ret |-> FALSE, panic |-> FALSE]

\* rebalance that repairs a balance factor of -2 only.
rebalance_right_only(self) ==
    LET bf == balance_factor(self) IN
    IF bf = -2 /\ is_some(self.right)
    THEN LET right_node == unwrap(self.right)
             rotated    == IF balance_factor(right_node) = 1
                           THEN rotate_right(right_node).self
                           ELSE right_node
         IN  [self  |-> rotate_left([self EXCEPT !.right = Some(rotated)]).self,
              ret   |-> TRUE,
              panic |-> FALSE]
    ELSE [self |-> self, ret |-> FALSE, panic |-> FALSE]

\* rebalance that repairs a balance factor of 2 only.
rebalance_left_only(self) ==
    LET bf == balance_factor(self) IN
    IF bf = 2 /\ is_some(self.left)
    THEN LET left_node == unwrap(self.left)
             rotated   == IF balance_factor(left_node) = -1
                          THEN rotate_left(left_node).self
                          ELSE left_node
         IN  [self  |-> rotate_right([self EXCEPT !.left = Some(rotated)]).self,
              ret   |-> TRUE,
              panic |-> FALSE]
    ELSE [self |-> self, ret |-> FALSE, panic |-> FALSE]

\* rebalance that never rotates.
rebalance_none(self) == [self |-> self, ret |-> FALSE, panic |-> FALSE]

\* rebalance without the inner rotation of the left-right and right-left
\* cases.
rebalance_single(self) ==
    LET bf == balance_factor(self) IN
    CASE bf = -2 -> [self |-> rotate_left(self).self, ret |-> TRUE, panic |-> FALSE]
      [] bf = 2  -> [self |-> rotate_right(self).self, ret |-> TRUE, panic |-> FALSE]
      [] OTHER   -> [self |-> self, ret |-> FALSE, panic |-> FALSE]

\* Result of rebalance: the node after the call, the returned bool, and
\* whether an unwrap of an absent child aborted the call.
rebalance(self) ==
    LET bf == balance_factor(self) IN
    CASE bf = -2 ->
           IF is_none(self.right)
           THEN [self |-> self, ret |-> FALSE, panic |-> TRUE]
           ELSE LET right_node == unwrap(self.right)
                    rotated    == IF balance_factor(right_node) = 1
                                  THEN rotate_right(right_node).self
                                  ELSE right_node
                IN  [self  |-> rotate_left([self EXCEPT !.right = Some(rotated)]).self,
                     ret   |-> TRUE,
                     panic |-> FALSE]
      [] bf = 2 ->
           IF is_none(self.left)
           THEN [self |-> self, ret |-> FALSE, panic |-> TRUE]
           ELSE LET left_node == unwrap(self.left)
                    rotated   == IF balance_factor(left_node) = -1
                                 THEN rotate_left(left_node).self
                                 ELSE left_node
                IN  [self  |-> rotate_right([self EXCEPT !.left = Some(rotated)]).self,
                     ret   |-> TRUE,
                     panic |-> FALSE]
      [] OTHER -> [self |-> self, ret |-> FALSE, panic |-> FALSE]

\* Whether every rotation that rebalance calls on self returns true; the
\* code drops the returned bools.
rotations_apply(self) ==
    LET bf == balance_factor(self) IN
    CASE bf = -2 ->
           /\ is_some(self.right)
           /\ LET right_node == unwrap(self.right)
                  inner      == IF balance_factor(right_node) = 1
                                THEN rotate_right(right_node)
                                ELSE [self |-> right_node, ret |-> TRUE]
              IN  /\ inner.ret
                  /\ rotate_left([self EXCEPT !.right = Some(inner.self)]).ret
      [] bf = 2 ->
           /\ is_some(self.left)
           /\ LET left_node == unwrap(self.left)
                  inner     == IF balance_factor(left_node) = -1
                               THEN rotate_left(left_node)
                               ELSE [self |-> left_node, ret |-> TRUE]
              IN  /\ inner.ret
                  /\ rotate_right([self EXCEPT !.left = Some(inner.self)]).ret
      [] OTHER -> TRUE

-----------------------------------------------------------------------------
(* Pointers into the tree: the path of a slot (an Option<Box<AVLNode>>)    *)

RECURSIVE Deref(_, _)
Deref(tree, ptr) ==
    IF ptr = <<>> THEN tree
    ELSE LET node == unwrap(tree)
         IN  Deref(IF Head(ptr) = "L" THEN node.left ELSE node.right, Tail(ptr))

RECURSIVE Store(_, _, _)
Store(tree, ptr, sub) ==
    IF ptr = <<>> THEN sub
    ELSE LET node == unwrap(tree)
         IN  IF Head(ptr) = "L"
             THEN Some([node EXCEPT !.left  = Store(node.left, Tail(ptr), sub)])
             ELSE Some([node EXCEPT !.right = Store(node.right, Tail(ptr), sub)])

\* node.update_height(); node.rebalance(); on the node that ptr points to.
\* st = [root, calls, panic]; calls logs every rebalance call: the node's
\* position, the balance factor rebalance read, what it returned, and
\* whether the rotations it called all applied.
\* node is the pointed-to node after update_height, r what rebalance made
\* of it.
rebalanced(st, ptr, node, r) ==
    [root  |-> Store(st.root, ptr, Some(r.self)),
     calls |-> Append(st.calls, [ptr        |-> ptr,
                                 bf         |-> balance_factor(node),
                                 ret        |-> r.ret,
                                 applicable |-> rotations_apply(node)]),
     panic |-> r.panic]

height_updated(st, ptr, node) == rebalanced(st, ptr, node, rebalance(node))

update_node(st, ptr) ==
    IF st.panic THEN st
    ELSE height_updated(st, ptr, update_height(unwrap(Deref(st.root, ptr))))

\* for ptr in ptrs.into_iter().rev() { update_height; rebalance }
RECURSIVE update_nodes(_, _)
update_nodes(st, ptrs) ==
    IF ptrs = <<>> THEN st
    ELSE update_nodes(update_node(st, ptrs[Len(ptrs)]),
                      SubSeq(ptrs, 1, Len(ptrs) - 1))

-----------------------------------------------------------------------------
(* AVLTreeSet *)

AVLTreeSet_new == None

\* The descent of insert: current_tree is the slot being looked at and
\* prev_ptrs the nodes visited so far.
RECURSIVE insert_descend(_, _, _, _)
insert_descend(tree, value, current_tree, prev_ptrs) ==
    LET slot == Deref(tree, current_tree) IN
    IF is_none(slot)
    THEN [equal |-> FALSE, current_tree |-> current_tree, prev_ptrs |-> prev_ptrs]
    ELSE LET current_node == unwrap(slot)
             pushed       == Append(prev_ptrs, current_tree)
         IN  CASE current_node.value > value ->
                    insert_descend(tree, value, Append(current_tree, "L"), pushed)
               [] current_node.value = value ->
                    [equal |-> TRUE, current_tree |-> current_tree, prev_ptrs |-> pushed]
               [] current_node.value < value ->
                    insert_descend(tree, value, Append(current_tree, "R"), pushed)

\* insert that overwrites the node holding an equal value with a new leaf.
insert_overwrite(tree, value) ==
    LET d == insert_descend(tree, value, <<>>, <<>>) IN
    IF d.equal
    THEN [root  |-> Store(tree, d.current_tree, Some(AVLNode_new(value))),
          ret   |-> FALSE, calls |-> <<>>, panic |-> FALSE]
    ELSE LET placed == Store(tree, d.current_tree, Some(AVLNode_new(value)))
             st     == update_nodes([root |-> placed, calls |-> <<>>, panic |-> FALSE],
                                    d.prev_ptrs)
         IN  [root |-> st.root, ret |-> TRUE, calls |-> st.calls, panic |-> st.panic]

\* insert that reports success without placing the new leaf when the slot
\* found is a left child slot.
insert_drop_left(tree, value) ==
    LET d == insert_descend(tree, value, <<>>, <<>>) IN
    IF d.equal
    THEN [root |-> tree, ret |-> FALSE, calls |-> <<>>, panic |-> FALSE]
    ELSE IF d.current_tree # <<>> /\ d.current_tree[Len(d.current_tree)] = "L"
         THEN [root |-> tree, ret |-> TRUE, calls |-> <<>>, panic |-> FALSE]
         ELSE LET placed == Store(tree, d.current_tree, Some(AVLNode_new(value)))
                  st     == update_nodes([root |-> placed, calls |-> <<>>,
                                          panic |-> FALSE], d.prev_ptrs)
              IN  [root |-> st.root, ret |-> TRUE, calls |-> st.calls,
                   panic |-> st.panic]

\* Result of insert: the tree after the call, the returned bool, the
\* rebalance calls made and whether the call aborted.
insert(tree, value) ==
    LET d == insert_descend(tree, value, <<>>, <<>>) IN
    IF d.equal
    THEN [root |-> tree, ret |-> FALSE, calls |-> <<>>, panic |-> FALSE]
    ELSE LET placed == Store(tree, d.current_tree, Some(AVLNode_new(value)))
             st     == update_nodes([root |-> placed, calls |-> <<>>, panic |-> FALSE],
                                    d.prev_ptrs)
         IN  [root |-> st.root, ret |-> TRUE, calls |-> st.calls, panic |-> st.panic]

RECURSIVE contains(_, _)
\* contains that descends to the wrong side.
contains_swapped(current_tree, value) ==
    IF is_none(current_tree) THEN FALSE
    ELSE LET current_node == unwrap(current_tree)
         IN  CASE current_node.value > value -> contains(current_node.right, value)
               [] current_node.value = value -> TRUE
               [] current_node.value < value -> contains(current_node.left, value)

contains(current_tree, value) ==
    IF is_none(current_tree) THEN FALSE
    ELSE LET current_node == unwrap(current_tree)
         IN  CASE current_node.value > value -> contains(current_node.left, value)
               [] current_node.value = value -> TRUE
               [] current_node.value < value -> contains(current_node.right, value)

\* The descent of take: the nodes passed are pushed on prev_ptrs and the
\* node holding the value, if any, becomes target_value.
RECURSIVE take_descend(_, _, _, _)
\* The descent of take without the early return for a value not found: the
\* last node passed becomes the target.
take_descend_last(tree, value, current_tree, prev_ptrs) ==
    LET slot == Deref(tree, current_tree) IN
    IF is_none(slot)
    THEN IF prev_ptrs = <<>>
         THEN [target_value |-> None, prev_ptrs |-> prev_ptrs]
         ELSE [target_value |-> Some(prev_ptrs[Len(prev_ptrs)]),
               prev_ptrs    |-> SubSeq(prev_ptrs, 1, Len(prev_ptrs) - 1)]
    ELSE LET current_node == unwrap(slot)
         IN  CASE current_node.value > value ->
                    take_descend(tree, value, Append(current_tree, "L"),
                                 Append(prev_ptrs, current_tree))
               [] current_node.value = value ->
                    [target_value |-> Some(current_tree), prev_ptrs |-> prev_ptrs]
               [] current_node.value < value ->
                    take_descend(tree, value, Append(current_tree, "R"),
                                 Append(prev_ptrs, current_tree))

take_descend(tree, value, current_tree, prev_ptrs) ==
    LET slot == Deref(tree, current_tree) IN
    IF is_none(slot)
    THEN [target_value |-> None, prev_ptrs |-> prev_ptrs]
    ELSE LET current_node == unwrap(slot)
         IN  CASE current_node.value > value ->
                    take_descend(tree, value, Append(current_tree, "L"),
                                 Append(prev_ptrs, current_tree))
               [] current_node.value = value ->
                    [target_value |-> Some(current_tree), prev_ptrs |-> prev_ptrs]
               [] current_node.value < value ->
                    take_descend(tree, value, Append(current_tree, "R"),
                                 Append(prev_ptrs, current_tree))

\* An edit of take that aborted on an unwrap of None.
take_panic(tree, prev_ptrs) ==
    [st           |-> [root |-> tree, calls |-> <<>>, panic |-> TRUE],
     taken_value  |-> None,
     prev_ptrs    |-> prev_ptrs]

\* take_one_child that always puts the left child in the target's place.
take_one_child_left(tree, target, prev_ptrs) ==
    LET target_node == unwrap(Deref(tree, target))
    IN  [st          |-> [root  |-> Store(tree, target, target_node.left),
                          calls |-> <<>>, panic |-> FALSE],
         taken_value |-> Some(target_node.value),
         prev_ptrs   |-> prev_ptrs]

\* take, target with one child: the child's node replaces the target's.
take_one_child(tree, target, prev_ptrs) ==
    LET target_node == unwrap(Deref(tree, target))
        child       == IF is_some(target_node.left)
                       THEN target_node.left ELSE target_node.right
    IN  [st          |-> [root  |-> Store(tree, target, child),
                          calls |-> <<>>, panic |-> FALSE],
         taken_value |-> Some(target_node.value),
         prev_ptrs   |-> prev_ptrs]

\* take, target without children: the parent popped from prev_ptrs gives
\* up the child whose value is the target's, and is updated and rebalanced;
\* without a parent the root is taken.
take_no_child(tree, target, prev_ptrs) ==
    LET target_node == unwrap(Deref(tree, target)) IN
    IF prev_ptrs # <<>>
    THEN LET prev_ptr  == prev_ptrs[Len(prev_ptrs)]
             rest      == SubSeq(prev_ptrs, 1, Len(prev_ptrs) - 1)
             prev_node == unwrap(Deref(tree, prev_ptr))
             side      == IF is_some(prev_node.left)
                          THEN IF unwrap(prev_node.left).value = target_node.value
                               THEN "L" ELSE "R"
                          ELSE "R"
             taken     == IF side = "L" THEN prev_node.left ELSE prev_node.right
         IN  IF is_none(taken)
             THEN take_panic(tree, rest)
             ELSE [st          |-> update_node(
                                       [root  |-> Store(tree, Append(prev_ptr, side), None),
                                        calls |-> <<>>, panic |-> FALSE],
                                       prev_ptr),
                   taken_value |-> Some(unwrap(taken).value),
                   prev_ptrs   |-> rest]
    ELSE IF is_none(tree)
         THEN take_panic(tree, prev_ptrs)
         ELSE [st          |-> [root |-> None, calls |-> <<>>, panic |-> FALSE],
               taken_value |-> Some(unwrap(tree).value),
               prev_ptrs   |-> prev_ptrs]

\* take, target with two children whose right child has no left child: the
\* right child's value and right subtree move up into the target.
take_right_child(tree, target, prev_ptrs) ==
    LET target_node == unwrap(Deref(tree, target))
        right_node  == unwrap(target_node.right)
        replaced    == [target_node EXCEPT !.value = right_node.value,
                                           !.right = right_node.right]
    IN  [st          |-> update_node([root  |-> Store(tree, target, Some(replaced)),
                                      calls |-> <<>>, panic |-> FALSE],
                                     target),
         taken_value |-> Some(target_node.value),
         prev_ptrs   |-> prev_ptrs]

\* The walk down the left spine from next_tree: every node that has a left
\* child is pushed on _prev_ptrs.
RECURSIVE leftmost_descend(_, _, _)
\* The walk that pushes every node of the left spine, the leftmost too.
leftmost_descend_all(tree, next_tree, _prev_ptrs) ==
    LET slot == Deref(tree, next_tree) IN
    IF is_none(slot) THEN _prev_ptrs
    ELSE leftmost_descend(tree, Append(next_tree, "L"),
                          Append(_prev_ptrs, next_tree))

leftmost_descend(tree, next_tree, _prev_ptrs) ==
    LET slot == Deref(tree, next_tree) IN
    IF is_none(slot) THEN _prev_ptrs
    ELSE LET _next_left == unwrap(slot)
         IN  leftmost_descend(tree, Append(next_tree, "L"),
                              IF is_some(_next_left.left)
                              THEN Append(_prev_ptrs, next_tree)
                              ELSE _prev_ptrs)

\* take through the leftmost node that updates the successor's parent and
\* the target only, not the nodes of the detour between them.
take_leftmost_no_detour(tree, target, prev_ptrs) ==
    LET target_node == unwrap(Deref(tree, target))
        _prev_ptrs  == leftmost_descend(tree, Append(target, "R"), <<>>)
    IN  IF _prev_ptrs = <<>>
        THEN take_panic(tree, prev_ptrs)
        ELSE LET parent_ptr  == _prev_ptrs[Len(_prev_ptrs)]
                 parent_left == unwrap(Deref(tree, parent_ptr))
                 leftmost    == unwrap(parent_left.left)
                 spliced     == Store(tree, Append(parent_ptr, "L"), leftmost.right)
                 valued      == Store(spliced, target,
                                      Some([unwrap(Deref(spliced, target))
                                              EXCEPT !.value = leftmost.value]))
                 st1         == update_node([root  |-> valued,
                                             calls |-> <<>>, panic |-> FALSE],
                                            parent_ptr)
             IN  [st          |-> update_node(st1, target),
                  taken_value |-> Some(target_node.value),
                  prev_ptrs   |-> prev_ptrs]

\* take, target with two children whose right child has a left child: the
\* leftmost node of the right subtree gives its value to the target and is
\* replaced by its right child; its parent, the rest of the detour and the
\* target are updated and rebalanced, deepest first.
take_leftmost(tree, target, prev_ptrs) ==
    LET target_node == unwrap(Deref(tree, target))
        _prev_ptrs  == leftmost_descend(tree, Append(target, "R"), <<>>)
    IN  IF _prev_ptrs = <<>>
        THEN take_panic(tree, prev_ptrs)
        ELSE LET parent_ptr  == _prev_ptrs[Len(_prev_ptrs)]
                 detour      == SubSeq(_prev_ptrs, 1, Len(_prev_ptrs) - 1)
                 parent_left == unwrap(Deref(tree, parent_ptr))
             IN  IF is_none(parent_left.left)
                 THEN take_panic(tree, prev_ptrs)
                 ELSE LET leftmost == unwrap(parent_left.left)
                          spliced  == Store(tree, Append(parent_ptr, "L"), leftmost.right)
                          valued   == Store(spliced, target,
                                            Some([unwrap(Deref(spliced, target))
                                                    EXCEPT !.value = leftmost.value]))
                          st1      == update_node([root  |-> valued,
                                                   calls |-> <<>>, panic |-> FALSE],
                                                  parent_ptr)
                          st2      == update_nodes(st1, detour)
                      IN  [st          |-> update_node(st2, target),
                           taken_value |-> Some(target_node.value),
                           prev_ptrs   |-> prev_ptrs]

\* Result of take: the tree after the call, the returned Option, the
\* rebalance calls made and whether the call aborted.
\* The structural edit of take at the target node, by the target's children.
take_edit(tree, target, target_node, prev_ptrs) ==
    IF is_none(target_node.left) \/ is_none(target_node.right)
    THEN IF is_some(target_node.left) \/ is_some(target_node.right)
         THEN take_one_child(tree, target, prev_ptrs)
         ELSE take_no_child(tree, target, prev_ptrs)
    ELSE IF is_none(unwrap(target_node.right).left)
         THEN take_right_child(tree, target, prev_ptrs)
         ELSE take_leftmost(tree, target, prev_ptrs)

\* What take returns once the ancestors left on prev_ptrs are updated.
take_result(taken_value, st) ==
    [root  |-> st.root,
     ret   |-> IF st.panic THEN None ELSE taken_value,
     calls |-> st.calls,
     panic |-> st.panic]

\* The nodes left on prev_ptrs are updated and rebalanced, deepest first.
take_update(e) == take_result(e.taken_value, update_nodes(e.st, e.prev_ptrs))

\* take that unwraps target_value without the early return on None.
take_found_unwrap(tree, d) ==
    IF is_none(d.target_value)
    THEN [root |-> tree, ret |-> None, calls |-> <<>>, panic |-> TRUE]
    ELSE take_update(take_edit(tree, unwrap(d.target_value),
                               unwrap(Deref(tree, unwrap(d.target_value))),
                               d.prev_ptrs))

\* target_value.as_ref()?; then the edit and the updates.
take_found(tree, d) ==
    IF is_none(d.target_value)
    THEN [root |-> tree, ret |-> None, calls |-> <<>>, panic |-> FALSE]
    ELSE take_update(take_edit(tree, unwrap(d.target_value),
                               unwrap(Deref(tree, unwrap(d.target_value))),
                               d.prev_ptrs))

take(tree, value) == take_found(tree, take_descend(tree, value, <<>>, <<>>))

\* from_iter: set is the set under construction ([root, panic]) and items
\* what the iterator has still to yield.
RECURSIVE from_iter_loop(_, _)

from_iter_step(r, items) ==
    from_iter_loop([root |-> r.root, panic |-> r.panic], items)

from_iter_loop(set, items) ==
    IF items = <<>> \/ set.panic THEN set
    ELSE from_iter_step(insert(set.root, Head(items)), Tail(items))

\* from_iter that consumes the sequence from its end.
from_iter_reversed(items) ==
    from_iter_loop([root |-> AVLTreeSet_new, panic |-> FALSE],
                   [i \in 1..Len(items) |-> items[Len(items) - i + 1]])

from_iter(items) ==
    from_iter_loop([root |-> AVLTreeSet_new, panic |-> FALSE], items)

-----------------------------------------------------------------------------
(* AVLTreeSetNodeIter: prev_nodes is the stack of pending ancestors and    *)
(* current_tree the subtree still to be entered.                           *)

node_iter(tree) == [prev_nodes |-> <<>>, current_tree |-> tree]

\* One call of next(): the iterator after the call and the item returned.
RECURSIVE next(_)
\* next that does not enter the right subtree of a popped ancestor.
next_no_right(it) ==
    IF is_none(it.current_tree)
    THEN IF it.prev_nodes = <<>>
         THEN [it |-> it, item |-> None]
         ELSE LET prev_node == it.prev_nodes[Len(it.prev_nodes)]
              IN  [it   |-> [prev_nodes   |-> SubSeq(it.prev_nodes, 1, Len(it.prev_nodes) - 1),
                             current_tree |-> None],
                   item |-> Some(prev_node)]
    ELSE LET current_node == unwrap(it.current_tree) IN
         IF is_some(current_node.left)
         THEN next([prev_nodes   |-> Append(it.prev_nodes, current_node),
                    current_tree |-> current_node.left])
         ELSE IF is_some(current_node.right)
         THEN [it   |-> [it EXCEPT !.current_tree = current_node.right],
               item |-> Some(current_node)]
         ELSE [it   |-> [it EXCEPT !.current_tree = None],
               item |-> Some(current_node)]

\* next that stays on a leaf it has returned.
next_sticky(it) ==
    IF is_none(it.current_tree)
    THEN IF it.prev_nodes = <<>>
         THEN [it |-> it, item |-> None]
         ELSE LET prev_node == it.prev_nodes[Len(it.prev_nodes)]
              IN  [it   |-> [prev_nodes   |-> SubSeq(it.prev_nodes, 1, Len(it.prev_nodes) - 1),
                             current_tree |-> prev_node.right],
                   item |-> Some(prev_node)]
    ELSE LET current_node == unwrap(it.current_tree) IN
         IF is_some(current_node.left)
         THEN next([prev_nodes   |-> Append(it.prev_nodes, current_node),
                    current_tree |-> current_node.left])
         ELSE IF is_some(current_node.right)
         THEN [it   |-> [it EXCEPT !.current_tree = current_node.right],
               item |-> Some(current_node)]
         ELSE [it |-> it, item |-> Some(current_node)]

next(it) ==
    IF is_none(it.current_tree)
    THEN IF it.prev_nodes = <<>>
         THEN [it |-> it, item |-> None]
         ELSE LET prev_node == it.prev_nodes[Len(it.prev_nodes)]
              IN  [it   |-> [prev_nodes   |-> SubSeq(it.prev_nodes, 1, Len(it.prev_nodes) - 1),
                             current_tree |-> prev_node.right],
                   item |-> Some(prev_node)]
    ELSE LET current_node == unwrap(it.current_tree) IN
         IF is_some(current_node.left)
         THEN next([prev_nodes   |-> Append(it.prev_nodes, current_node),
                    current_tree |-> current_node.left])
         ELSE IF is_some(current_node.right)
         THEN [it   |-> [it EXCEPT !.current_tree = current_node.right],
               item |-> Some(current_node)]
         ELSE [it   |-> [it EXCEPT !.current_tree = None],
               item |-> Some(current_node)]

\* The nodes an iterator yields until its first None.
RECURSIVE collect(_)
collect(it) ==
    LET r == next(it) IN
    IF is_none(r.item) THEN <<>> ELSE <<unwrap(r.item)>> \o collect(r.it)

\* iter(): node_iter mapped to the values.
iter(tree) ==
    LET nodes == collect(node_iter(tree)) IN [i \in 1..Len(nodes) |-> nodes[i].value]

-----------------------------------------------------------------------------
(* The set driven by a caller: any sequence of insert, take and contains   *)
(* calls, with a reference set (the tests' BTreeSet) kept in lockstep.     *)

\* The almost-union-find program is not running.
AUF_Idle ==
    /\ n = 0
    /\ num_sets = 0
    /\ set_size = <<>>
    /\ element_id = <<>>
    /\ sets = <<>>
    /\ set_id = <<>>
    /\ groups = <<>>
    /\ aborted = NoPanic
    /\ overflow_checks = TRUE
    /\ auf_op = "none"
    /\ auf_p = 0
    /\ auf_q = 0
    /\ auf_ret = <<>>

Init ==
    /\ root = AVLTreeSet_new
    /\ btree_set = {}
    /\ op = "new"
    /\ arg = 0
    /\ ret = None
    /\ calls = <<>>
    /\ panicked = FALSE
    /\ input = <<>>
    /\ iters = <<>>
    /\ AUF_Idle

\* set.insert(value), whoever calls it.
InsertCall(value) ==
    /\ ~panicked
    /\ \E r \in {insert(root, value)} :
           /\ root' = r.root
           /\ ret' = r.ret
           /\ calls' = r.calls
           /\ panicked' = r.panic
    /\ btree_set' = btree_set \cup {value}
    /\ op' = "insert"
    /\ arg' = value
    /\ UNCHANGED iters
    /\ UNCHANGED auf_vars

Insert(value) ==
    /\ InsertCall(value)
    /\ UNCHANGED input

Take(value) ==
    /\ ~panicked
    /\ \E r \in {take(root, value)} :
           /\ root' = r.root
           /\ ret' = r.ret
           /\ calls' = r.calls
           /\ panicked' = r.panic
    /\ btree_set' = btree_set \ {value}
    /\ op' = "take"
    /\ arg' = value
    /\ UNCHANGED <<input, iters>>
    /\ UNCHANGED auf_vars

Contains(value) ==
    /\ ~panicked
    /\ ret' = contains(root, value)
    /\ op' = "contains"
    /\ arg' = value
    /\ calls' = <<>>
    /\ UNCHANGED <<root, btree_set, panicked, input, iters>>
    /\ UNCHANGED auf_vars

Next ==
    \/ \E value \in Values : Insert(value)
    \/ \E value \in Values : Take(value)
    \/ \E value \in Values : Contains(value)

Spec == Init /\ [][Next]_vars

-----------------------------------------------------------------------------
(* The rotation tests: a set is collected from a sequence of values (so    *)
(* built by inserts alone), then one rotation is applied to a node of it,  *)
(* or the rotation and its opposite to the root, and the result is looked  *)
(* at.  arg is the position of the rotated node.                           *)

\* The position of every node of a tree.
RECURSIVE NodePtrs(_)
NodePtrs(tree) ==
    IF is_none(tree) THEN {}
    ELSE {<<>>}
         \cup {<<"L">> \o ptr : ptr \in NodePtrs(unwrap(tree).left)}
         \cup {<<"R">> \o ptr : ptr \in NodePtrs(unwrap(tree).right)}

\* if root_node.rotate_left() { root_node.rotate_right(); }
\* else { root_node.rotate_right(); root_node.rotate_left(); }
\* with rotated_left the outcome of the first rotate_left.
rotate_back(root_node, rotated_left) ==
    IF rotated_left.ret
    THEN rotate_right(rotated_left.self).self
    ELSE rotate_left(rotate_right(rotated_left.self).self).self

rotate_left_and_rotate_right(root_node) ==
    rotate_back(root_node, rotate_left(root_node))

Collect(value) ==
    /\ op \in {"new", "insert"}
    /\ Insert(value)

\* What a rotation test leaves alone.
RotateFrame ==
    /\ op \in {"new", "insert"}
    /\ ~panicked
    /\ calls' = <<>>
    /\ UNCHANGED <<btree_set, panicked, input, iters>>
    /\ UNCHANGED auf_vars

RotateRight(ptr) ==
    /\ RotateFrame
    /\ \E r \in {rotate_right(unwrap(Deref(root, ptr)))} :
           /\ root' = Store(root, ptr, Some(r.self))
           /\ ret' = r.ret
    /\ op' = "rotate_right"
    /\ arg' = ptr

RotateLeft(ptr) ==
    /\ RotateFrame
    /\ \E r \in {rotate_left(unwrap(Deref(root, ptr)))} :
           /\ root' = Store(root, ptr, Some(r.self))
           /\ ret' = r.ret
    /\ op' = "rotate_left"
    /\ arg' = ptr

RotateLeftAndRight ==
    /\ RotateFrame
    /\ is_some(root)
    /\ root' = Some(rotate_left_and_rotate_right(unwrap(root)))
    /\ ret' = None
    /\ op' = "rotate_left_and_rotate_right"
    /\ arg' = <<>>

NextRotate ==
    \/ \E value \in Values : Collect(value)
    \/ \E ptr \in NodePtrs(root) : RotateRight(ptr)
    \/ \E ptr \in NodePtrs(root) : RotateLeft(ptr)
    \/ RotateLeftAndRight

SpecRotate == Init /\ [][NextRotate]_vars

-----------------------------------------------------------------------------
(* A set collected from a sequence of values, and the same values inserted *)
(* one call at a time; input is the sequence of values given so far.       *)

\* The sequences given hold at most MaxLen values.
MaxLen == 3

FromIter(items) ==
    /\ op = "new"
    /\ \E set \in {from_iter(items)} :
           /\ root' = set.root
           /\ panicked' = set.panic
    /\ btree_set' = {items[i] : i \in 1..Len(items)}
    /\ op' = "from_iter"
    /\ arg' = 0
    /\ ret' = None
    /\ calls' = <<>>
    /\ input' = items
    /\ UNCHANGED iters
    /\ UNCHANGED auf_vars

InsertInOrder(value) ==
    /\ Len(input) < MaxLen
    /\ InsertCall(value)
    /\ input' = Append(input, value)

NextCollect ==
    \/ \E k \in 0..MaxLen : \E items \in [1..k -> Values] : FromIter(items)
    \/ \E value \in Values : InsertInOrder(value)

SpecCollect == Init /\ [][NextCollect]_vars

-----------------------------------------------------------------------------
(* Iterators over a set.  iter() borrows the set, so insert and take can   *)
(* only be called while no iterator is alive.  Every iterator of iters is  *)
(* a record of its state it, of the values it has yielded and of the       *)
(* number of times its next() has returned None.                           *)

\* At most MaxIters iterators are alive at a time.
MaxIters == 2

\* next() is called at most MaxNones times on an exhausted iterator.
MaxNones == 2

InsertUnborrowed(value) ==
    /\ iters = <<>>
    /\ Insert(value)

TakeUnborrowed(value) ==
    /\ iters = <<>>
    /\ Take(value)

\* What the iterator calls leave alone.
IterFrame ==
    /\ ~panicked
    /\ UNCHANGED <<root, btree_set, panicked, input>>
    /\ UNCHANGED auf_vars

\* set.iter(): node_iter() mapped to the values.
Iter ==
    /\ IterFrame
    /\ Len(iters) < MaxIters
    /\ iters' = Append(iters, [it |-> node_iter(root), yielded |-> <<>>, nones |-> 0])
    /\ op' = "iter"
    /\ arg' = 0
    /\ ret' = None
    /\ calls' = <<>>

\* The iterator i after a next() that had the outcome r.
advanced(i, r) ==
    IF is_none(r.item)
    THEN [iters EXCEPT ![i] = [it      |-> r.it,
                               yielded |-> @.yielded,
                               nones   |-> @.nones + 1]]
    ELSE [iters EXCEPT ![i] = [it      |-> r.it,
                               yielded |-> Append(@.yielded, unwrap(r.item).value),
                               nones   |-> @.nones]]

IterNext(i) ==
    /\ IterFrame
    /\ iters[i].nones < MaxNones
    /\ \E r \in {next(iters[i].it)} : iters' = advanced(i, r)
    /\ UNCHANGED <<op, arg, ret, calls>>

NextIter ==
    \/ \E value \in Values : InsertUnborrowed(value)
    \/ \E value \in Values : TakeUnborrowed(value)
    \/ Iter
    \/ \E i \in 1..Len(iters) : IterNext(i)

SpecIter == Init /\ [][NextIter]_vars

-----------------------------------------------------------------------------
(* One rebalance call, as insert and take make it: on a node whose height  *)
(* was just updated, whose children are AVL trees with their cached        *)
(* heights right, and whose balance factor is between -2 and 2 (a child    *)
(* has grown or shrunk by one level).  The children are all the AVL trees  *)
(* up to MaxHeight high; the values are numbered in order.                 *)

MaxHeight == 3

\* The AVL trees that are exactly h high, every value 0.
RECURSIVE AVLShapes(_)
AVLShapes(h) ==
    IF h = 0 THEN {None}
    ELSE LET children ==
                 (AVLShapes(h - 1) \X AVLShapes(h - 1))
                 \cup (IF h = 1 THEN {}
                       ELSE (AVLShapes(h - 1) \X AVLShapes(h - 2))
                            \cup (AVLShapes(h - 2) \X AVLShapes(h - 1)))
         IN  {Some([value |-> 0, height |-> h, left |-> c[1], right |-> c[2]]) :
                 c \in children}

RECURSIVE Size(_)
Size(tree) ==
    IF is_none(tree) THEN 0
    ELSE 1 + Size(unwrap(tree).left) + Size(unwrap(tree).right)

\* tree with its values replaced by base + 1, base + 2, ... in order.
RECURSIVE Numbered(_, _)
Numbered(tree, base) ==
    IF is_none(tree) THEN None
    ELSE LET node == unwrap(tree)
             here == base + Size(node.left) + 1
         IN  Some([node EXCEPT !.value = here,
                               !.left  = Numbered(node.left, base),
                               !.right = Numbered(node.right, here)])

InitRebalance ==
    /\ \E hl \in 0..MaxHeight : \E hr \in 0..MaxHeight :
          /\ hl - hr \in -2..2
          /\ \E left \in AVLShapes(hl) : \E right \in AVLShapes(hr) :
                root = Numbered(Some(update_height([value  |-> 0,
                                                    height |-> 1,
                                                    left   |-> left,
                                                    right  |-> right])), 0)
    /\ btree_set = {}
    /\ op = "update_height"
    /\ arg = 0
    /\ ret = None
    /\ calls = <<>>
    /\ panicked = FALSE
    /\ input = <<>>
    /\ iters = <<>>
    /\ AUF_Idle

Rebalance ==
    /\ op = "update_height"
    /\ \E r \in {rebalance(unwrap(root))} :
           /\ root' = Some(r.self)
           /\ ret' = r.ret
           /\ panicked' = r.panic
           /\ calls' = <<[ptr        |-> <<>>,
                          bf         |-> balance_factor(unwrap(root)),
                          ret        |-> r.ret,
                          applicable |-> rotations_apply(unwrap(root))]>>
    /\ op' = "rebalance"
    /\ UNCHANGED <<btree_set, arg, input, iters>>
    /\ UNCHANGED auf_vars

NextRebalance == Rebalance

SpecRebalance == InitRebalance /\ [][NextRebalance]_vars

-----------------------------------------------------------------------------
(* AlmostUnionFind (almost-union-find/src/main.rs).  A Vec is a sequence;  *)
(* the program's indices start at 0.  self is the record of the struct's   *)
(* fields, with panic the message of the panic that ended the program (an  *)
(* index out of bounds, or a usize subtraction that underflows) and checks *)
(* whether the build checks arithmetic overflow (rustc's debug profile     *)
(* does, its release profile wraps).  A usize that has wrapped is held as   *)
(* the representative of its value modulo 2^64 that is below 0: -1 stands  *)
(* for 2^64 - 1.                                                           *)

\* The elements are 1..n, n drawn from 1..MaxN.
MaxN == 3

\* In a build without overflow checks num_sets may wrap below 0 and go on
\* falling; commands are followed until it has fallen MaxWrap below 0.
MaxWrap == 1

in_bounds(vec, i) == i >= 0 /\ i < Len(vec)
at(vec, i) == vec[i + 1]
set_at(vec, i, x) == [vec EXCEPT ![i + 1] = x]

AlmostUnionFind_new(size, checks) ==
    [checks     |-> checks,
     num_sets   |-> size,
     set_size   |-> [i \in 1..size |-> 1],
     element_id |-> [i \in 1..size |-> <<i - 1, 0>>],
     sets       |-> [i \in 1..size |-> <<i>>],
     panic      |-> NoPanic]

auf_panic(self, message) == [self EXCEPT !.panic = message]

\* for i in &self.sets[from] { self.element_id[*i-1] =
\*     (to, self.set_size[to] + self.element_id[*i-1].1) }, members being
\* what is left of the list to go through.
RECURSIVE switch_ids(_, _, _)
switch_ids(self, members, to) ==
    IF members = <<>> \/ self.panic # NoPanic THEN self
    ELSE LET i == Head(members) IN
         IF ~in_bounds(self.element_id, i - 1) \/ ~in_bounds(self.set_size, to)
         THEN auf_panic(self, IndexOutOfBounds)
         ELSE switch_ids(
                  [self EXCEPT !.element_id =
                      set_at(self.element_id, i - 1,
                             <<to, at(self.set_size, to) + at(self.element_id, i - 1)[2]>>)],
                  Tail(members), to)

\* self.set_size[to] += self.set_size[from]; self.set_size[from] = 0;
add_size(self, from, to) ==
    [self EXCEPT !.set_size =
        set_at(set_at(self.set_size, to, at(self.set_size, to) + at(self.set_size, from)),
               from, 0)]

\* let mut _temp = self.sets[_q.0].clone(); self.sets[_p.0].append(&mut _temp);
\* self.sets[_q.0] = vec![];
append_sets(self, p0, q0) ==
    [self EXCEPT !.sets =
        set_at(set_at(self.sets, p0, at(self.sets, p0) \o at(self.sets, q0)),
               q0, <<>>)]

\* self.num_sets -= 1;
dec_num_sets(self) ==
    IF self.panic # NoPanic THEN self
    ELSE IF self.num_sets = 0 /\ self.checks THEN auf_panic(self, SubtractOverflow)
    ELSE [self EXCEPT !.num_sets = self.num_sets - 1]

\* union once _p and _q are read.
union_ids(self, _p, _q) ==
    IF _p[1] # _q[1]
    THEN IF ~in_bounds(self.set_size, _p[1]) \/ ~in_bounds(self.set_size, _q[1])
         THEN auf_panic(self, IndexOutOfBounds)
         ELSE IF at(self.set_size, _p[1]) < at(self.set_size, _q[1])
              THEN dec_num_sets(append_sets(
                       add_size(switch_ids(self, at(self.sets, _p[1]), _q[1]),
                                _p[1], _q[1]),
                       _p[1], _q[1]))
              ELSE dec_num_sets(append_sets(
                       add_size(switch_ids(self, at(self.sets, _q[1]), _p[1]),
                                _q[1], _p[1]),
                       _p[1], _q[1]))
    ELSE self

union(self, p, q) ==
    IF ~in_bounds(self.element_id, p - 1) \/ ~in_bounds(self.element_id, q - 1)
    THEN auf_panic(self, IndexOutOfBounds)
    ELSE union_ids(self, at(self.element_id, p - 1), at(self.element_id, q - 1))

\* Vec::swap_remove(index): the last element takes the place of the one
\* removed.
swap_remove(vec, index) ==
    IF index = Len(vec) - 1
    THEN SubSeq(vec, 1, Len(vec) - 1)
    ELSE SubSeq(set_at(vec, index, vec[Len(vec)]), 1, Len(vec) - 1)

\* The cleanup of _move: the set p left is gone, or its element now last in
\* the list gets p's old index.
move_cleanup(self, _p) ==
    IF at(self.set_size, _p[1]) = 0
    THEN dec_num_sets(self)
    ELSE IF ~in_bounds(at(self.sets, _p[1]), at(self.set_size, _p[1]) - 1)
    THEN auf_panic(self, IndexOutOfBounds)
    ELSE [self EXCEPT !.element_id =
             set_at(self.element_id,
                    at(at(self.sets, _p[1]), at(self.set_size, _p[1]) - 1) - 1,
                    <<_p[1], _p[2]>>)]

\* self.set_size[_q.0] += 1; self.set_size[_p.0] -= 1; and the cleanup.
\* A size of 0 underflows: with overflow checks that is the panic, without
\* them the size wraps to 2^64 - 1 and the cleanup indexes the member list
\* at 2^64 - 2.
move_sizes(self, _p, _q) ==
    IF at(self.set_size, _p[1]) = 0
    THEN auf_panic(self, IF self.checks THEN SubtractOverflow ELSE IndexOutOfBounds)
    ELSE move_cleanup(
             [self EXCEPT !.set_size =
                 set_at(set_at(self.set_size, _q[1], at(self.set_size, _q[1]) + 1),
                        _p[1], at(set_at(self.set_size, _q[1],
                                         at(self.set_size, _q[1]) + 1), _p[1]) - 1)],
             _p)

\* _move once _p and _q are read.
move_ids(self, p, _p, _q) ==
    IF _p[1] # _q[1]
    THEN IF \/ ~in_bounds(self.sets, _p[1])
            \/ ~in_bounds(self.sets, _q[1])
            \/ ~in_bounds(at(self.sets, _p[1]), _p[2])
         THEN auf_panic(self, IndexOutOfBounds)
         ELSE move_sizes(
                  [self EXCEPT
                      !.sets = set_at(set_at(self.sets, _p[1],
                                             swap_remove(at(self.sets, _p[1]), _p[2])),
                                      _q[1],
                                      Append(at(self.sets, _q[1]),
                                             at(at(self.sets, _p[1]), _p[2]))),
                      !.element_id = set_at(self.element_id, p - 1,
                                            <<_q[1], at(self.set_size, _q[1])>>)],
                  _p, _q)
    ELSE self

_move(self, p, q) ==
    IF ~in_bounds(self.element_id, p - 1) \/ ~in_bounds(self.element_id, q - 1)
    THEN auf_panic(self, IndexOutOfBounds)
    ELSE move_ids(self, p, at(self.element_id, p - 1), at(self.element_id, q - 1))

RECURSIVE sum(_)
sum(vec) == IF vec = <<>> THEN 0 ELSE Head(vec) + sum(Tail(vec))

\* _return: the pair (size, sum), or a panic.
_return(self, p) ==
    IF ~in_bounds(self.element_id, p - 1)
    THEN [ret |-> <<>>, panic |-> IndexOutOfBounds]
    ELSE IF \/ ~in_bounds(self.set_size, at(self.element_id, p - 1)[1])
            \/ ~in_bounds(self.sets, at(self.element_id, p - 1)[1])
    THEN [ret |-> <<>>, panic |-> IndexOutOfBounds]
    ELSE [ret   |-> <<at(self.set_size, at(self.element_id, p - 1)[1]),
                      sum(at(self.sets, at(self.element_id, p - 1)[1]))>>,
          panic |-> NoPanic]

-----------------------------------------------------------------------------
(* The program of main(): n on the first line, then any sequence of        *)
(* commands 1 p q (union), 2 p q (move) and 3 p (return) with p and q in   *)
(* 1..n.  groups is the reference: for every element, the set that holds   *)
(* it when union merges two sets and move relocates one element.           *)

\* The set is not in use.
AVL_Idle ==
    /\ root = None
    /\ btree_set = {}
    /\ op = "none"
    /\ arg = 0
    /\ ret = None
    /\ calls = <<>>
    /\ panicked = FALSE
    /\ input = <<>>
    /\ iters = <<>>

self_now ==
    [checks |-> overflow_checks, num_sets |-> num_sets, set_size |-> set_size,
     element_id |-> element_id, sets |-> sets, panic |-> aborted]

becomes(self) ==
    /\ self.num_sets >= -MaxWrap
    /\ num_sets' = self.num_sets
    /\ set_size' = self.set_size
    /\ element_id' = self.element_id
    /\ sets' = self.sets
    /\ aborted' = self.panic

InitAUF ==
    /\ n \in 1..MaxN
    /\ overflow_checks \in BOOLEAN
    /\ \E self \in {AlmostUnionFind_new(n, overflow_checks)} :
          /\ num_sets = self.num_sets
          /\ set_size = self.set_size
          /\ element_id = self.element_id
          /\ sets = self.sets
          /\ aborted = self.panic
    /\ set_id = <<>>
    /\ groups = [i \in 1..n |-> {i}]
    /\ auf_op = "new"
    /\ auf_p = 0
    /\ auf_q = 0
    /\ auf_ret = <<>>
    /\ AVL_Idle

Union(p, q) ==
    /\ aborted = NoPanic
    /\ \E self \in {union(self_now, p, q)} : becomes(self)
    /\ groups' = [i \in 1..n |->
                    IF i \in groups[p] \cup groups[q]
                    THEN groups[p] \cup groups[q] ELSE groups[i]]
    /\ auf_op' = "union"
    /\ auf_p' = p
    /\ auf_q' = q
    /\ auf_ret' = <<>>
    /\ UNCHANGED <<n, overflow_checks, set_id, avl_vars>>

Move(p, q) ==
    /\ aborted = NoPanic
    /\ \E self \in {_move(self_now, p, q)} : becomes(self)
    /\ groups' = IF q \in groups[p] THEN groups
                 ELSE [i \in 1..n |->
                         IF i = p \/ i \in groups[q] THEN groups[q] \cup {p}
                         ELSE groups[i] \ {p}]
    /\ auf_op' = "move"
    /\ auf_p' = p
    /\ auf_q' = q
    /\ auf_ret' = <<>>
    /\ UNCHANGED <<n, overflow_checks, set_id, avl_vars>>

Return(p) ==
    /\ aborted = NoPanic
    /\ \E r \in {_return(self_now, p)} :
          /\ auf_ret' = r.ret
          /\ aborted' = r.panic
    /\ auf_op' = "return"
    /\ auf_p' = p
    /\ auf_q' = 0
    /\ UNCHANGED <<n, overflow_checks, num_sets, set_size, element_id, sets,
                   set_id, groups, avl_vars>>

NextAUF ==
    \/ \E p \in 1..n : \E q \in 1..n : Union(p, q)
    \/ \E p \in 1..n : \E q \in 1..n : Move(p, q)
    \/ \E p \in 1..n : Return(p)

SpecAUF == InitAUF /\ [][NextAUF]_vars

-----------------------------------------------------------------------------
(* The first AlmostUnionFind (almost-union-find/src/v1_main.rs): set_id is *)
(* the parent of every element (from 0), a root being its own parent, and  *)
(* set_size the size of the set of every root.  self is the record of the  *)
(* struct's fields, with checks and panic as above.                        *)

\* The first line of the input gives at most MaxElems elements.
MaxElems == 4

v1_new(size, checks) ==
    [checks   |-> checks,
     num_sets |-> size,
     set_size |-> [i \in 1..size |-> 1],
     set_id   |-> [i \in 1..size |-> i - 1],
     panic    |-> NoPanic]

\* while root != self.set_id[root] { root = self.set_id[root]; }
\* fuel is the number of elements: a chain longer than that is a cycle,
\* and the loop never ends (-1).
RECURSIVE v1_find_root(_, _, _)
v1_find_root(ids, r, fuel) ==
    IF at(ids, r) = r THEN r
    ELSE IF fuel = 0 THEN -1
    ELSE v1_find_root(ids, at(ids, r), fuel - 1)

\* while p != root { next = self.set_id[p]; self.set_id[p] = root; p = next; }
RECURSIVE v1_compress(_, _, _)
v1_compress(ids, p, r) ==
    IF p = r THEN ids
    ELSE v1_compress(set_at(ids, p, r), at(ids, p), r)

v1_found(self, p, r) ==
    IF r = -1
    THEN [self |-> auf_panic(self, LoopsForever), root |-> 0]
    ELSE [self |-> [self EXCEPT !.set_id = v1_compress(self.set_id, p, r)],
          root |-> r]

\* Result of find: self with the path compressed, and the root.
v1_find(self, p) ==
    v1_found(self, p - 1, v1_find_root(self.set_id, p - 1, Len(self.set_id)))

\* union once both roots are found.
v1_union_roots(self, root_p, root_q) ==
    IF self.panic # NoPanic \/ root_p = root_q THEN self
    ELSE IF at(self.set_size, root_p) < at(self.set_size, root_q)
    THEN dec_num_sets(
             [self EXCEPT !.set_size = set_at(set_at(@, root_q,
                                                     at(@, root_q) + at(@, root_p)),
                                              root_p, 0),
                          !.set_id   = set_at(@, root_p, root_q)])
    ELSE dec_num_sets(
             [self EXCEPT !.set_size = set_at(set_at(@, root_p,
                                                     at(@, root_p) + at(@, root_q)),
                                              root_q, 0),
                          !.set_id   = set_at(@, root_q, root_p)])

v1_union_second(root_p, found_q) ==
    v1_union_roots(found_q.self, root_p, found_q.root)

v1_union_first(found_p, q) ==
    v1_union_second(found_p.root, v1_find(found_p.self, q))

v1_union(self, p, q) == v1_union_first(v1_find(self, p), q)

\* The cleanup loop of _move: i is the index the loop is at.
RECURSIVE v1_new_root(_, _, _, _)
v1_new_root(self, root_p, i, new_root) ==
    IF i = Len(self.set_id) THEN self
    ELSE IF at(self.set_id, i) # root_p
    THEN v1_new_root(self, root_p, i + 1, new_root)
    ELSE IF is_some(new_root)
    THEN v1_new_root([self EXCEPT !.set_id = set_at(@, i, unwrap(new_root))],
                     root_p, i + 1, new_root)
    ELSE v1_new_root([self EXCEPT !.set_id   = set_at(@, i, i),
                                  !.set_size = set_at(set_at(@, i, at(@, root_p)),
                                                      root_p, 0)],
                     root_p, i + 1, Some(i))

v1_move_cleanup(self, p, root_p) ==
    IF p - 1 = root_p /\ at(self.set_size, root_p) # 0
    THEN v1_new_root(self, root_p, 0, None)
    ELSE self

\* _move once both roots are found.  A size of 0 underflows: with overflow
\* checks that is a panic, without them the size wraps.
v1_move_roots(self, p, root_p, root_q) ==
    IF self.panic # NoPanic \/ root_p = root_q THEN self
    ELSE IF at(self.set_size, root_p) = 0 /\ self.checks
    THEN auf_panic(self, SubtractOverflow)
    ELSE v1_move_cleanup(
             [self EXCEPT !.set_size = set_at(set_at(@, root_q, at(@, root_q) + 1),
                                              root_p, at(@, root_p) - 1),
                          !.set_id   = set_at(@, p - 1, root_q)],
             p, root_p)

v1_move_second(p, root_p, found_q) ==
    v1_move_roots(found_q.self, p, root_p, found_q.root)

v1_move_first(p, found_p, q) ==
    v1_move_second(p, found_p.root, v1_find(found_p.self, q))

v1_move(self, p, q) == v1_move_first(p, v1_find(self, p), q)

\* for i in 0..self.set_id.len() { if self.set_id[i] == root_p { sum += i + 1; } }
RECURSIVE v1_sum(_, _, _)
v1_sum(ids, root_p, i) ==
    IF i = Len(ids) THEN 0
    ELSE (IF at(ids, i) = root_p THEN i + 1 ELSE 0) + v1_sum(ids, root_p, i + 1)

v1_return_root(found_p) ==
    [self |-> found_p.self,
     ret  |-> IF found_p.self.panic # NoPanic THEN <<>>
              ELSE <<at(found_p.self.set_size, found_p.root),
                     v1_sum(found_p.self.set_id, found_p.root, 0)>>]

\* Result of _return: self with p's path compressed, and the pair
\* (size, sum).
v1_return(self, p) == v1_return_root(v1_find(self, p))

v1_self_now ==
    [checks |-> overflow_checks, num_sets |-> num_sets, set_size |-> set_size,
     set_id |-> set_id, panic |-> aborted]

v1_becomes(self) ==
    /\ num_sets' = self.num_sets
    /\ set_size' = self.set_size
    /\ set_id' = self.set_id
    /\ aborted' = self.panic

InitV1 ==
    /\ n \in 1..MaxElems
    /\ overflow_checks \in BOOLEAN
    /\ \E self \in {v1_new(n, overflow_checks)} :
          /\ num_sets = self.num_sets
          /\ set_size = self.set_size
          /\ set_id = self.set_id
          /\ aborted = self.panic
    /\ element_id = <<>>
    /\ sets = <<>>
    /\ groups = [i \in 1..n |-> {i}]
    /\ auf_op = "new"
    /\ auf_p = 0
    /\ auf_q = 0
    /\ auf_ret = <<>>
    /\ AVL_Idle

UnionV1(p, q) ==
    /\ aborted = NoPanic
    /\ \E self \in {v1_union(v1_self_now, p, q)} : v1_becomes(self)
    /\ groups' = [i \in 1..n |->
                    IF i \in groups[p] \cup groups[q]
                    THEN groups[p] \cup groups[q] ELSE groups[i]]
    /\ auf_op' = "union"
    /\ auf_p' = p
    /\ auf_q' = q
    /\ auf_ret' = <<>>
    /\ UNCHANGED <<n, overflow_checks, element_id, sets, avl_vars>>

MoveV1(p, q) ==
    /\ aborted = NoPanic
    /\ \E self \in {v1_move(v1_self_now, p, q)} : v1_becomes(self)
    /\ groups' = IF q \in groups[p] THEN groups
                 ELSE [i \in 1..n |->
                         IF i = p \/ i \in groups[q] THEN groups[q] \cup {p}
                         ELSE groups[i] \ {p}]
    /\ auf_op' = "move"
    /\ auf_p' = p
    /\ auf_q' = q
    /\ auf_ret' = <<>>
    /\ UNCHANGED <<n, overflow_checks, element_id, sets, avl_vars>>

ReturnV1(p) ==
    /\ aborted = NoPanic
    /\ \E r \in {v1_return(v1_self_now, p)} :
          /\ v1_becomes(r.self)
          /\ auf_ret' = r.ret
    /\ auf_op' = "return"
    /\ auf_p' = p
    /\ auf_q' = 0
    /\ UNCHANGED <<n, overflow_checks, element_id, sets, groups, avl_vars>>

NextV1 ==
    \/ \E p \in 1..n : \E q \in 1..n : UnionV1(p, q)
    \/ \E p \in 1..n : \E q \in 1..n : MoveV1(p, q)
    \/ \E p \in 1..n : ReturnV1(p)

SpecV1 == InitV1 /\ [][NextV1]_vars

-----------------------------------------------------------------------------
(* What the properties speak of *)

\* Every node of a tree.
RECURSIVE Nodes(_)
Nodes(tree) ==
    IF is_none(tree) THEN {}
    ELSE {unwrap(tree)} \cup Nodes(unwrap(tree).left) \cup Nodes(unwrap(tree).right)

\* The values stored in a tree.
ValuesOf(tree) == {node.value : node \in Nodes(tree)}

\* A rotation happened during the last call.
Rotated == \E i \in 1..Len(calls) : calls[i].ret

\* The last call was a take that went through the two-children case with
\* a detour down the left spine of the target's right subtree.
TookLeftmost ==
    /\ op = "take"
    /\ is_some(ret)
    /\ \E i \in 1..Len(calls) : \E j \in (i+1)..Len(calls) :
          /\ Len(calls[i].ptr) > Len(calls[j].ptr) + 1
          /\ SubSeq(calls[i].ptr, 1, Len(calls[j].ptr) + 1) = Append(calls[j].ptr, "R")

-----------------------------------------------------------------------------
(* Properties of the set *)

\* C1: after any sequence of insert and take calls from the empty set,
\* every node of the tree has balance factor -1, 0 or 1.
C1_Balanced ==
    \A node \in Nodes(root) : balance_factor(node) \in {-1, 0, 1}

\* A take has just rotated a node of a tree that is still 3 or more high.
C1_Witness ==
    /\ op = "take"
    /\ is_some(ret)
    /\ Rotated
    /\ is_some(root)
    /\ unwrap(root).height >= 3

\* C2: after any sequence of insert and take calls from the empty set,
\* every node's cached height is 1 + the larger of its children's cached
\* heights, an absent child counting 0.
C2_HeightCorrect ==
    \A node \in Nodes(root) :
        node.height = 1 + max(left_height(node), right_height(node))

\* An insert has rotated a node below the root, and the heights of its
\* ancestors were recomputed afterwards.
C2_Witness ==
    /\ op = "insert"
    /\ ret = TRUE
    /\ \E i \in 1..Len(calls) : calls[i].ret /\ calls[i].ptr # <<>>
    /\ unwrap(root).height >= 3

\* C3: after every insert and take, iter() yields exactly the elements of
\* the reference set, each once, in strictly ascending order.
C3_IterParity ==
    LET yielded == iter(root) IN
    /\ Len(yielded) = Cardinality(btree_set)
    /\ {yielded[i] : i \in 1..Len(yielded)} = btree_set
    /\ \A i \in 1..Len(yielded) : \A j \in 1..Len(yielded) :
          i < j => yielded[i] < yielded[j]

\* A take has left MaxVal - 2 elements, in a tree whose root has both
\* children; the iterator has to climb back from a left subtree.
C3_Witness ==
    /\ op = "take"
    /\ is_some(ret)
    /\ Len(iter(root)) = MaxVal - 2
    /\ is_some(unwrap(root).left)
    /\ is_some(unwrap(root).right)

\* C4: insert(v) returns true exactly when v is not stored, and after a
\* true return the stored values are the previous ones plus v.
C4_InsertResult ==
    [][op' = "insert" =>
         /\ ret' = (arg' \notin ValuesOf(root))
         /\ ret' => ValuesOf(root') = ValuesOf(root) \cup {arg'}
         /\ (arg' \notin btree_set) = (arg' \notin ValuesOf(root))]_vars

\* An insert into a set of 4 or more values returned true and rotated.
C4_Witness ==
    /\ op = "insert"
    /\ ret = TRUE
    /\ Rotated
    /\ Cardinality(btree_set) >= 5

\* C5: take(x) returns Some(x) exactly when x is stored; after a successful
\* take contains(x) is false, contains(y) is as before for every other y,
\* and a second take(x) returns None.
C5_TakeResult ==
    [][op' = "take" =>
         /\ ret' = IF arg' \in ValuesOf(root) THEN Some(arg') ELSE None
         /\ is_some(ret') =>
               /\ ~contains(root', arg')
               /\ \A y \in Values \ {arg'} : contains(root', y) = contains(root, y)
               /\ take(root', arg').ret = None]_vars

\* A take of a node with two children succeeded.
C5_Witness ==
    /\ TookLeftmost
    /\ Cardinality(btree_set) >= 3

\* C6: contains(x) is true exactly when x was inserted and not taken since
\* (it agrees with the reference set), and leaves the tree as it was.
C6_ContainsParity ==
    [][op' = "contains" =>
         /\ ret' = (arg' \in btree_set)
         /\ root' = root]_vars

\* contains has found a value that is stored 3 levels down.
C6_Witness ==
    /\ op = "contains"
    /\ ret = TRUE
    /\ is_some(root)
    /\ \E side1 \in {"L", "R"} : \E side2 \in {"L", "R"} :
          /\ is_some(Deref(root, <<side1>>))
          /\ is_some(Deref(root, <<side1, side2>>))
          /\ unwrap(Deref(root, <<side1, side2>>)).value = arg

\* C7: insert(v) of a stored value returns false and leaves the whole tree
\* (shape, values, cached heights) and so the output of iter() unchanged.
C7_InsertDuplicate ==
    [][op' = "insert" /\ arg' \in ValuesOf(root) =>
         /\ ret' = FALSE
         /\ root' = root
         /\ iter(root') = iter(root)]_vars

\* An insert of a value stored in a node that has children returned false.
C7_Witness ==
    /\ op = "insert"
    /\ ret = FALSE
    /\ \E node \in Nodes(root) : node.value = arg /\ node.height >= 2

\* C8: take(x) of a value that is not stored returns None and leaves the
\* whole tree (shape, values, cached heights) unchanged.
C8_TakeAbsent ==
    [][op' = "take" /\ arg' \notin ValuesOf(root) =>
         /\ ret' = None
         /\ root' = root]_vars

\* A take on a tree 3 high returned None.
C8_Witness ==
    /\ op = "take"
    /\ ret = None
    /\ is_some(root)
    /\ unwrap(root).height >= 3

\* C15: on an empty set, new or emptied by takes, contains returns false
\* and take returns None for every value, iter() yields nothing, no call
\* aborts, and the set stays empty.
C15_EmptySet ==
    [][(is_none(root) /\ op' \in {"contains", "take"})
       =>
       (/\ iter(root) = <<>>
        /\ ret' = IF op' = "contains" THEN FALSE ELSE None
        /\ ~panicked'
        /\ is_none(root')
        /\ iter(root') = <<>>)]_vars

\* take has returned None on an empty set.
C15_Witness ==
    /\ op = "take"
    /\ ret = None
    /\ is_none(root)
    /\ btree_set = {}
    /\ ~panicked

\* C16: from_iter of a sequence gives the same tree as inserting its values
\* one call at a time, in order, into an empty set, and the set holds each
\* distinct value of the sequence once.
C16_FromIter ==
    /\ root = from_iter(input).root
    /\ panicked = from_iter(input).panic
    /\ ValuesOf(root) = {input[i] : i \in 1..Len(input)}
    /\ Len(iter(root)) = Cardinality({input[i] : i \in 1..Len(input)})

\* MaxLen values were inserted one call at a time; the last was in the set
\* already and was ignored.
C16_Witness ==
    /\ op = "insert"
    /\ ret = FALSE
    /\ Len(input) = MaxLen
    /\ Cardinality({input[i] : i \in 1..Len(input)}) = MaxLen - 1

\* The values of a set in ascending order.
RECURSIVE Ascending(_)
Ascending(S) ==
    IF S = {} THEN <<>>
    ELSE LET least == CHOOSE x \in S : \A y \in S : x <= y
         IN  <<least>> \o Ascending(S \ {least})

\* C17: an iterator over a set of n values yields the n values, smallest
\* first, then None, and None on every later call; a new iterator starts
\* from the smallest value however far the others have got; and next()
\* leaves the set as it was.
C17_IterTerminates ==
    /\ [](\A i \in 1..Len(iters) :
            LET yielded == iters[i].yielded IN
            /\ Len(yielded) <= Cardinality(btree_set)
            /\ yielded = SubSeq(Ascending(btree_set), 1, Len(yielded))
            /\ iters[i].nones > 0 => Len(yielded) = Cardinality(btree_set)
            /\ Len(yielded) = Cardinality(btree_set) =>
                  is_none(next(iters[i].it).item))
    /\ [][iters' # iters =>
            /\ root' = root
            /\ \A i \in 1..Len(iters) :
                  iters'[i] # iters[i] =>
                     \A j \in (1..Len(iters)) \ {i} : iters'[j] = iters[j]]_vars

\* Of two iterators over 5 values or more, the first is exhausted and has
\* returned None twice, the second has yielded the smallest value only.
C17_Witness ==
    /\ Len(iters) = 2
    /\ Cardinality(btree_set) >= 5
    /\ iters[1].nones = 2
    /\ Len(iters[1].yielded) = Cardinality(btree_set)
    /\ iters[2].yielded = <<iters[1].yielded[1]>>

\* C18: inserting 3, 2, 1 in that order into an empty set gives
\* iter() = [1, 2, 3] and a tree 2 high: root 2 with the leaves 1 and 3.
C18_InsertThreeTwoOne ==
    input = <<3, 2, 1>> =>
        /\ iter(root) = <<1, 2, 3>>
        /\ root = Some([value  |-> 2,
                        height |-> 2,
                        left   |-> Some(AVLNode_new(1)),
                        right  |-> Some(AVLNode_new(3))])

\* 3, 2 and 1 were inserted one call at a time, and the insert of 1 rotated
\* the root.
C18_Witness ==
    /\ input = <<3, 2, 1>>
    /\ op = "insert"
    /\ arg = 1
    /\ calls # <<>>
    /\ calls[Len(calls)].ptr = <<>>
    /\ calls[Len(calls)].ret

\* Every node of tree has balance factor -1, 0 or 1 and the right cached
\* height.
ValidAVL(tree) ==
    \A node \in Nodes(tree) :
        /\ balance_factor(node) \in {-1, 0, 1}
        /\ node.height = 1 + max(left_height(node), right_height(node))

\* C20: on a node with valid AVL subtrees as children, its height just
\* updated and its balance factor between -2 and 2, one rebalance call
\* leaves a valid AVL tree with the same values in order; it returns true
\* exactly when the balance factor was 2 or -2 and changes nothing
\* otherwise.
C20_RebalanceLocal ==
    [][op' = "rebalance" =>
         /\ ~panicked'
         /\ ValidAVL(root')
         /\ iter(root') = iter(root)
         /\ ret' = (balance_factor(unwrap(root)) \in {-2, 2})
         /\ ~ret' => root' = root]_vars

\* rebalance has rotated a node with balance factor 2 whose left child was
\* level 3 high: the tree is still 4 high.
C20_Witness ==
    /\ op = "rebalance"
    /\ ret = TRUE
    /\ calls[1].bf = 2
    /\ unwrap(root).height = 4

\* C21: during every insert and take on a set reachable from the empty
\* one, every call of rebalance reads a balance factor between -2 and 2.
C21_BalanceFactorRange ==
    \A i \in 1..Len(calls) : calls[i].bf \in -2..2

\* A take has called rebalance on two nodes or more and one of them had
\* balance factor 2 or -2.
C21_Witness ==
    /\ op = "take"
    /\ is_some(ret)
    /\ Len(calls) >= 2
    /\ \E i \in 1..Len(calls) : calls[i].bf \in {-2, 2}

\* C22: no insert, contains or take on a reachable set aborts: the child
\* unwrapped by rebalance, the parent's child link taken for a leaf target
\* and the successor's parent popped from the detour stack all exist, and
\* every rotation that rebalance calls applies (returns true).
C22_NoFatalCondition ==
    /\ ~panicked
    /\ \A i \in 1..Len(calls) : calls[i].applicable

\* A take has removed a value, walked up two nodes or more and the first
\* node it rebalanced was rotated.
C22_Witness ==
    /\ op = "take"
    /\ is_some(ret)
    /\ ~panicked
    /\ Len(calls) >= 2
    /\ calls[1].ret
    /\ calls[1].applicable

-----------------------------------------------------------------------------
(* Properties of the almost-union-find program *)

RECURSIVE SumOf(_)
SumOf(S) ==
    IF S = {} THEN 0
    ELSE LET x == CHOOSE x \in S : TRUE IN x + SumOf(S \ {x})

\* The member lists (indices into sets, from 0) that hold element e.
ListsHolding(lists, e) ==
    {s \in 0..(Len(lists) - 1) : \E k \in 1..Len(at(lists, s)) : at(lists, s)[k] = e}

\* C9: after any sequence of union and move commands on n singleton sets,
\* _return(p) returns the number of elements and the sum of the elements of
\* the set that holds p.
C9_ReturnSizeAndSum ==
    (auf_op = "return" /\ aborted = NoPanic) =>
        auf_ret = <<Cardinality(groups[auf_p]), SumOf(groups[auf_p])>>

\* C10: _move(p, q) with p and q in different sets moves p into the member
\* list of q's set and nothing else: that list then holds p, the list of p's
\* former set no longer does, and every other element is in the lists it
\* was in.
C10_MoveOnlyP ==
    [][(/\ auf_op' = "move"
        /\ aborted = NoPanic
        /\ groups[auf_p'] # groups[auf_q']
        /\ at(element_id, auf_p' - 1)[1] # at(element_id, auf_q' - 1)[1])
       =>
       (/\ aborted' = NoPanic
        /\ at(element_id, auf_q' - 1)[1] \in ListsHolding(sets', auf_p')
        /\ at(element_id, auf_p' - 1)[1] \notin ListsHolding(sets', auf_p')
        /\ \A e \in (1..n) \ {auf_p'} :
              ListsHolding(sets', e) = ListsHolding(sets, e))]_vars

\* C26: after any sequence of union and _move commands the bookkeeping is
\* consistent: every element i with element_id[i-1] = (s, k) is the entry
\* sets[s][k], and set_size[s] is the length of sets[s] for every s.
C26_Bookkeeping ==
    aborted = NoPanic =>
        /\ \A i \in 1..n :
              /\ at(element_id, i - 1)[1] \in 0..(Len(sets) - 1)
              /\ at(element_id, i - 1)[2]
                    \in 0..(Len(at(sets, at(element_id, i - 1)[1])) - 1)
              /\ at(at(sets, at(element_id, i - 1)[1]),
                    at(element_id, i - 1)[2]) = i
        /\ \A s \in 0..(n - 1) : at(set_size, s) = Len(at(sets, s))

\* C27: no union, _move or _return command with arguments in 1..n aborts:
\* every index is in bounds and no usize subtraction underflows.
C27_NoAbort == aborted = NoPanic

-----------------------------------------------------------------------------
(* Properties of the rotations *)

\* The node a rotation step is about to rotate.
Rotating == unwrap(Deref(root, arg'))

\* C11: in a tree built by inserts, rotate_right on a node with a left
\* child and rotate_left on a node with a right child leave the in-order
\* sequence of the node's subtree, and so iter() of the set, unchanged.
C11_RotationPreservesOrder ==
    [][(\/ op' = "rotate_right" /\ is_some(Rotating.left)
        \/ op' = "rotate_left" /\ is_some(Rotating.right))
       =>
       (/\ iter(Deref(root', arg')) = iter(Deref(root, arg'))
        /\ iter(root') = iter(root))]_vars

\* A node below the root, with both children, was rotated right in a set
\* of 5 or more values.
C11_Witness ==
    /\ op = "rotate_right"
    /\ ret = TRUE
    /\ arg # <<>>
    /\ is_some(unwrap(Deref(root, arg)).left)
    /\ Len(iter(root)) >= 5

\* C12: on a non-empty tree built by inserts, a rotation of the root
\* followed by the opposite rotation (left then right when the root has a
\* right child, right then left otherwise) gives back the same tree: shape,
\* values and cached heights.
C12_RotationIdentity ==
    [][op' = "rotate_left_and_rotate_right" =>
         /\ root' = root
         /\ iter(root') = iter(root)]_vars

\* The root of a tree 3 high, with both children, was rotated left and
\* back.
C12_Witness ==
    /\ op = "rotate_left_and_rotate_right"
    /\ unwrap(root).height >= 3
    /\ is_some(unwrap(root).left)
    /\ is_some(unwrap(root).right)

\* C13: on a set built by inserts a successful rotate_right of the root
\* lowers its balance factor by 2 or more and a successful rotate_left
\* raises it by 2 or more, no i8 computation overflowing.
C13_RotationTilts ==
    [][(op' \in {"rotate_right", "rotate_left"} /\ arg' = <<>> /\ ret' = TRUE)
       =>
       LET balance_factor_before == balance_factor(unwrap(root))
           tilted_factor         == balance_factor(unwrap(root'))
           difference            == balance_factor_before - tilted_factor
       IN  /\ balance_factor_before
                 = left_height(unwrap(root)) - right_height(unwrap(root))
           /\ tilted_factor
                 = left_height(unwrap(root')) - right_height(unwrap(root'))
           /\ difference \in -128..127
           /\ op' = "rotate_right" => difference >= 2
           /\ op' = "rotate_left" => difference <= -2]_vars

\* The root of a tree with both subtrees was rotated left.
C13_Witness ==
    /\ op = "rotate_left"
    /\ arg = <<>>
    /\ ret = TRUE
    /\ is_some(unwrap(root).right)
    /\ unwrap(unwrap(root).left).height >= 2

\* C14: rotate_right on a node without a left child and rotate_left on a
\* node without a right child return false and change nothing; every other
\* rotation returns true.
C14_RotationNotApplicable ==
    [][/\ op' = "rotate_right" =>
            /\ ret' = is_some(Rotating.left)
            /\ is_none(Rotating.left) => root' = root
       /\ op' = "rotate_left" =>
            /\ ret' = is_some(Rotating.right)
            /\ is_none(Rotating.right) => root' = root]_vars

\* rotate_left returned false on a node that has a left child only.
C14_Witness ==
    /\ op = "rotate_left"
    /\ ret = FALSE
    /\ is_some(unwrap(Deref(root, arg)).left)
    /\ is_none(unwrap(Deref(root, arg)).right)

-----------------------------------------------------------------------------
(* Properties of the first almost-union-find program *)

\* C19: in v1_main.rs, after any sequence of union and move commands on n
\* singleton sets, where a move takes p alone to q's set, no command has
\* aborted and _return(p) returns the number of elements and the sum of the
\* elements of the set that holds p.
C19_ReturnSizeAndSumV1 ==
    /\ aborted = NoPanic
    /\ auf_op = "return" =>
          auf_ret = <<Cardinality(groups[auf_p]), SumOf(groups[auf_p])>>

-----------------------------------------------------------------------------
(* Shape of the rotations, order of the updates of take, height bound *)

\* The height of a tree counted from its shape, the cached heights unread.
RECURSIVE HeightOf(_)
HeightOf(tree) ==
    IF is_none(tree) THEN 0
    ELSE 1 + max(HeightOf(unwrap(tree).left), HeightOf(unwrap(tree).right))

\* The subtree the last rotation test was run on, after the call.
RotatedTree == Deref(root', arg')

\* C23: rotate_right on a node r with left child L (children LL, LR) and
\* right subtree R leaves at r's position a node with L's value, left
\* subtree LL and a right child with r's former value, left subtree LR and
\* right subtree R; the demoted child and the subtree root then carry
\* their true heights.  rotate_left is the mirror image.
C23_RotationShape ==
    [][/\ (op' = "rotate_right" /\ ret' = TRUE) =>
            /\ is_some(RotatedTree)
            /\ is_some(unwrap(RotatedTree).right)
            /\ LET L       == unwrap(Rotating.left)
                   top     == unwrap(RotatedTree)
                   demoted == unwrap(top.right)
               IN  /\ top.value = L.value
                   /\ top.left = L.left
                   /\ demoted.value = Rotating.value
                   /\ demoted.left = L.right
                   /\ demoted.right = Rotating.right
                   /\ demoted.height = HeightOf(top.right)
                   /\ top.height = HeightOf(RotatedTree)
       /\ (op' = "rotate_left" /\ ret' = TRUE) =>
            /\ is_some(RotatedTree)
            /\ is_some(unwrap(RotatedTree).left)
            /\ LET R       == unwrap(Rotating.right)
                   top     == unwrap(RotatedTree)
                   demoted == unwrap(top.left)
               IN  /\ top.value = R.value
                   /\ top.right = R.right
                   /\ demoted.value = Rotating.value
                   /\ demoted.right = R.left
                   /\ demoted.left = Rotating.left
                   /\ demoted.height = HeightOf(top.left)
                   /\ top.height = HeightOf(RotatedTree)]_vars

\* A node was rotated right whose left child had two children and whose
\* right subtree was not empty: LL, LR and R are all in place afterwards.
C23_Witness ==
    /\ op = "rotate_right"
    /\ ret = TRUE
    /\ is_some(Deref(root, arg))
    /\ LET top == unwrap(Deref(root, arg))
       IN  /\ is_some(top.left)
           /\ is_some(top.right)
           /\ is_some(unwrap(top.right).left)
           /\ is_some(unwrap(top.right).right)

\* The position of value in tree, which holds it.
RECURSIVE PathTo(_, _, _)
PathTo(tree, value, ptr) ==
    LET node == unwrap(Deref(tree, ptr)) IN
    IF node.value = value THEN ptr
    ELSE IF value < node.value
         THEN PathTo(tree, value, Append(ptr, "L"))
         ELSE PathTo(tree, value, Append(ptr, "R"))

\* The position of the leftmost node of the subtree at ptr.
RECURSIVE LeftmostOf(_, _)
LeftmostOf(tree, ptr) ==
    IF is_none(unwrap(Deref(tree, ptr)).left) THEN ptr
    ELSE LeftmostOf(tree, Append(ptr, "L"))

\* The positions above ptr, the deepest first, the root last.
AncestorsOf(ptr) == [i \in 1..Len(ptr) |-> SubSeq(ptr, 1, Len(ptr) - i)]

\* The take about to be observed removes a value held by a node with two
\* children.
TakesTwoChildren ==
    /\ op' = "take"
    /\ arg' \in ValuesOf(root)
    /\ is_some(unwrap(Deref(root, PathTo(root, arg', <<>>))).left)
    /\ is_some(unwrap(Deref(root, PathTo(root, arg', <<>>))).right)

\* What C24 says of a take whose target is at position target and whose
\* in-order successor is at position successor.
SuccessorTake(target, successor) ==
    LET leftmost == unwrap(Deref(root, successor)) IN
    /\ is_none(leftmost.left)
    /\ \A v \in ValuesOf(Deref(root, Append(target, "R"))) : leftmost.value <= v
    /\ ret' = Some(arg')
    /\ iter(root') = SelectSeq(iter(root), LAMBDA v : v # arg')
    /\ Len(calls') = Len(successor)
    /\ \A i \in 1..Len(calls') : calls'[i].ptr = AncestorsOf(successor)[i]
    /\ (\A i \in 1..Len(calls') : ~calls'[i].ret) =>
           /\ unwrap(Deref(root', target)).value = leftmost.value
           /\ Deref(root', successor) = leftmost.right

\* C24: a take whose target has two children gives the target the value of
\* its in-order successor, the leftmost node of its right subtree, which
\* has no left child, and splices the successor out; update_height and
\* rebalance are then applied, deepest first and none skipped, to every
\* node from the successor's former parent up to the target's right child,
\* to the target, and to every ancestor of the target up to the root.
C24_TakeTwoChildren ==
    [][TakesTwoChildren =>
         SuccessorTake(PathTo(root, arg', <<>>),
                       LeftmostOf(root, Append(PathTo(root, arg', <<>>), "R")))]_vars

\* A take has replaced a value by its successor two levels or more below
\* the target's right child: the first node updated lies on the left spine
\* under the right child of a node updated later, which now holds a larger
\* value than the one taken.
C24_Witness ==
    /\ op = "take"
    /\ ret = Some(arg)
    /\ \E j \in 3..Len(calls) :
          /\ calls[1].ptr = calls[j].ptr \o <<"R">> \o [k \in 1..(j - 2) |-> "L"]
          /\ unwrap(Deref(root, calls[j].ptr)).value > arg

\* N(h) of C25: N(0) = 0, N(1) = 1, N(h) = 1 + N(h - 1) + N(h - 2).
RECURSIVE MinNodes(_)
MinNodes(h) ==
    IF h <= 1 THEN h ELSE 1 + MinNodes(h - 1) + MinNodes(h - 2)

\* C25: after any sequence of inserts and takes that leaves n values, the
\* height h of the root satisfies n >= N(h), and h is at least the ceiling
\* of log2(n + 1), that is 2^h >= n + 1.
C25_HeightBound ==
    /\ Size(root) = Cardinality(btree_set)
    /\ HeightOf(root) = (IF is_none(root) THEN 0 ELSE unwrap(root).height)
    /\ Size(root) >= MinNodes(HeightOf(root))
    /\ 2 ^ HeightOf(root) >= Size(root) + 1

\* An insert has left a tree of height 4 that holds N(4) = 7 values and no
\* more.
C25_Witness ==
    /\ op = "insert"
    /\ ret = TRUE
    /\ HeightOf(root) = 4
    /\ Size(root) = MinNodes(4)

=============================================================================
